---------------------------- MODULE Spec2Model ----------------------------
(***************************************************************************)
(* A model of the GFS invoice line-item extraction engine                  *)
(* (scripts/invoice_parser.py) and of the catalog persistence calls it     *)
(* drives (scripts/db_manager.py).                                         *)
(*                                                                         *)
(* Text is modelled as a sequence of one-character strings, so that the    *)
(* regular expressions, str.split, str.join, int() and float() of the      *)
(* source are computed character by character.  A float produced by        *)
(* float() from a price-shaped token (digits, ".", two digits) is          *)
(* represented by its value in hundredths.                                 *)
(***************************************************************************)
EXTENDS Integers, Sequences, FiniteSets, TLC

VARIABLES
    line,           \* the text line handed to the parser
    tokens,         \* parts = line.strip().split(), as the call computed it
    result,         \* what parse_line_item(line) returned
    priceOut,       \* what extract_price_fields(parts) returned
    pc,             \* the position of the modelled call or loop
    products,       \* table gfs_products, in id order (id = position)
    invoices,       \* table gfs_invoice_history, in id order
    invoice_items,  \* table gfs_invoice_items, in insertion order
    today,          \* date.today(), as a day number
    lastItem,       \* the item_data of the latest upsert_product call
    nCalls,         \* how many upsert_product calls were made
    docs,           \* batch_process_invoices: the sorted invoice files
    docIdx,         \* the file in turn (1-based)
    current,        \* `result`, what parse_invoice returned for the file in turn
    itemIdx,        \* the item of result['items'] in turn (1-based)
    invoice_id,     \* the local invoice_id
    product_id,     \* the local product_id
    errors,         \* the error messages printed so far
    stored,         \* the (file, item) pairs whose invoice item was inserted
    lastInfo,       \* the invoice_info of the latest add_invoice call
    nAdds,          \* how many add_invoice calls were made
    jobs,           \* per worker, the items it upserts, in order
    jobIdx,         \* per worker, the item of its jobs in turn (1-based)
    fetched,        \* per worker, `existing`: the row its SELECT fetched
    wpc,            \* per worker, its position inside upsert_product
    firstPage,      \* parse_invoice: `lines` of the first page
    lineNo,         \* the line of the first page in turn (1-based)
    info            \* invoice_info, as far as the lines in turn have set it

parserVars == <<line, tokens, result, priceOut>>
dbVars == <<products, invoices, invoice_items>>
upsertVars == <<today, lastItem, nCalls>>
batchVars == <<docs, docIdx, current, itemIdx, invoice_id, product_id, errors, stored>>
historyVars == <<lastInfo, nAdds>>
workerVars == <<jobs, jobIdx, fetched, wpc>>
metaVars == <<firstPage, lineNo, info>>
callerVars == <<historyVars, workerVars, metaVars>>
vars == <<parserVars, pc, dbVars, upsertVars, batchVars, callerVars>>

(***************************************************************************)
(* Characters and text helpers.                                            *)
(***************************************************************************)
\* The characters \d matches, and int() and float() read: the decimal digits of
\* Unicode.  "U+0663" stands for the single character ARABIC-INDIC DIGIT THREE,
\* the representative of the digits outside ASCII.
Digits == {"0", "1", "2", "3", "4", "5", "6", "7", "8", "9", "U+0663"}

DigitVal ==
    ("0" :> 0) @@ ("1" :> 1) @@ ("2" :> 2) @@ ("3" :> 3) @@ ("4" :> 4) @@
    ("5" :> 5) @@ ("6" :> 6) @@ ("7" :> 7) @@ ("8" :> 8) @@ ("9" :> 9) @@
    ("U+0663" :> 3)

Whitespace == {" ", "\t"}

Max(a, b) == IF a >= b THEN a ELSE b
Min(a, b) == IF a <= b THEN a ELSE b

\* Python's s[lo:hi] for 0 <= lo, on a 1-based TLA+ sequence.
Slice(s, lo, hi) == SubSeq(s, lo + 1, Min(hi, Len(s)))

\* Python's s[i] for 0 <= i < len(s).
At(s, i) == s[i + 1]

RECURSIVE Join(_)
\* ' '.join(words)
Join(words) ==
    IF words = <<>> THEN <<>>
    ELSE IF Len(words) = 1 THEN words[1]
    ELSE words[1] \o <<" ">> \o Join(Tail(words))

RECURSIVE SplitFrom(_, _, _, _)
SplitFrom(s, i, cur, acc) ==
    IF i > Len(s)
    THEN IF cur = <<>> THEN acc ELSE Append(acc, cur)
    ELSE IF s[i] \in Whitespace
         THEN SplitFrom(s, i + 1, <<>>, IF cur = <<>> THEN acc ELSE Append(acc, cur))
         ELSE SplitFrom(s, i + 1, Append(cur, s[i]), acc)

\* s.split(): the maximal runs of non-whitespace characters, in order.
Split(s) == SplitFrom(s, 1, <<>>, <<>>)

RECURSIVE Strip(_)
\* line.strip()
Strip(s) ==
    IF s = <<>> THEN s
    ELSE IF s[1] \in Whitespace THEN Strip(Tail(s))
    ELSE IF s[Len(s)] \in Whitespace THEN Strip(SubSeq(s, 1, Len(s) - 1))
    ELSE s

RECURSIVE DigitsValue(_)
\* the number a non-empty string of decimal digits denotes
DigitsValue(t) ==
    IF t = <<>> THEN 0
    ELSE 10 * DigitsValue(SubSeq(t, 1, Len(t) - 1)) + DigitVal[t[Len(t)]]

AllDigits(t) == \A i \in 1..Len(t) : t[i] \in Digits

(***************************************************************************)
(* The static reference tables.                                            *)
(***************************************************************************)
CATEGORY_MAP ==
    (<<"P", "R">> :> "Produce") @@
    (<<"G", "R">> :> "Grocery") @@
    (<<"F", "R">> :> "Frozen") @@
    (<<"D", "Y">> :> "Dairy") @@
    (<<"B", "V">> :> "Beverage") @@
    (<<"C", "N">> :> "Canned") @@
    (<<"P", "A">> :> "Paper") @@
    (<<"C", "H">> :> "Chemical/Cleaning") @@
    (<<"E", "Q">> :> "Equipment") @@
    (<<"P", "U">> :> "Packaging/Supply")

KNOWN_BRANDS ==
    { <<"M", "a", "r", "k", "o", "n">>,
      <<"R", "e", "a", "d", "y", "-">>,
      <<"S", "t", "a", "c", "y", "'">>,
      <<"A", "n", "n", "i", "e", "'">>,
      <<"N", "u", "t", "r", "i", "-">>,
      <<"B", "e", "t", "t", "y">>,
      <<"Z", "e", "e", " ", "Z", "e">>,
      <<"C", "o", "o", "l", " ", "C">>,
      <<"K", "e", "l", "l", "o", "g">>,
      <<"C", "o", "r", "n", " ", "P">>,
      <<"R", "u", "f", "f", "l", "e">>,
      <<"P", "e", "p", "p", "e", "r">>,
      <<"M", "a", "r", "z", "e", "t">>,
      <<"H", "o", "r", "i", "z", "o">>,
      <<"G", "o", "r", "d", "o", "n">>,
      <<"P", "a", "c", "k", "e", "r">>,
      <<"T", "r", "u", " ", "F", "r", "u">>,
      <<"A", "m", "a", "f", "r", "u">>,
      <<"K", "e", "n", "'", "s">>,
      <<"G", ".", "S", ".">> }

\* the unit words of the pack-size test
PACK_UNITS ==
    { <<"E", "A">>, <<"L", "B">>, <<"O", "Z">>, <<"F", "O", "Z">>,
      <<"C", "O">>, <<"C", "S">> }

(***************************************************************************)
(* extract_price_fields                                                    *)
(***************************************************************************)
\* re.match(r'^\d+\.\d{2}$', p)
IsPriceToken(p) ==
    /\ Len(p) >= 4
    /\ p[Len(p) - 2] = "."
    /\ \A i \in 1..Len(p) : i # Len(p) - 2 => p[i] \in Digits

\* float(p) for a price-shaped p, in hundredths
Float(p) ==
    100 * DigitsValue(SubSeq(p, 1, Len(p) - 3))
        + DigitsValue(SubSeq(p, Len(p) - 1, Len(p)))

\* the scan never stops early, so every price-shaped token of the line counts
ScanStops_Never(prices) == FALSE

\* `elif prices:` -- the scan stops at a non-price token once a price was collected
ScanStops(prices) == prices # <<>>

RECURSIVE CollectPrices(_, _, _)
\* the loop over reversed(parts); i is the 0-based index of the token in turn
CollectPrices(parts, i, prices) ==
    IF i < 0 THEN prices
    ELSE IF IsPriceToken(At(parts, i))
         THEN CollectPrices(parts, i - 1, <<Float(At(parts, i))>> \o prices)
         ELSE IF ScanStops(prices) THEN prices
              ELSE CollectPrices(parts, i - 1, prices)

\* the policy taking the three leftmost of the collected prices
PriceResult_Leftmost(prices) ==
    LET k == Len(prices) IN
    IF k >= 3 THEN <<prices[1], prices[2], prices[3]>>
    ELSE IF k >= 2 THEN <<0, prices[k - 1], prices[k]>>
    ELSE IF k >= 1 THEN <<0, prices[k], prices[k]>>
    ELSE <<0, 0, 0>>

\* the policy leaving unit_price at its default when one price was collected
PriceResult_UnitDefault(prices) ==
    LET k == Len(prices) IN
    IF k >= 3 THEN <<prices[k - 2], prices[k - 1], prices[k]>>
    ELSE IF k >= 2 THEN <<0, prices[k - 1], prices[k]>>
    ELSE IF k >= 1 THEN <<0, 0, prices[k]>>
    ELSE <<0, 0, 0>>

\* the result policy on the collected prices: <<inv_val, unit_price, extended>>
PriceResult(prices) ==
    LET k == Len(prices) IN
    IF k >= 3 THEN <<prices[k - 2], prices[k - 1], prices[k]>>
    ELSE IF k >= 2 THEN <<0, prices[k - 1], prices[k]>>
    ELSE IF k >= 1 THEN <<0, prices[k], prices[k]>>
    ELSE <<0, 0, 0>>

extract_price_fields(parts) ==
    PriceResult(CollectPrices(parts, Len(parts) - 1, <<>>))

(***************************************************************************)
(* parse_line_item                                                         *)
(***************************************************************************)
NoneResult == [kind |-> "None"]
RaiseResult(exc) == [kind |-> "raise", exception |-> exc]

\* re.match(r'^\d{6}$', parts[0])
IsItemCode(t) == Len(t) = 6 /\ AllDigits(t)

\* the classifier without the item-code test
ClassifierAccepts_AnyCode(parts) == ~(Len(parts) < 8)

\* the two early returns: len(parts) < 8, first token not a 6-digit item code
ClassifierAccepts(parts) ==
    /\ ~(Len(parts) < 8)
    /\ IsItemCode(At(parts, 0))

\* the scan starting one token too far from the prices
ScanStart_Early(n) == n - 5

\* the scan running one token further toward the start of the line
ScanStop_Far(n) == Max(4, n - 11)

\* range(len(parts) - 4, max(4, len(parts) - 10), -1): first index, and the
\* exclusive stop
ScanStart(n) == n - 4
ScanStop(n) == Max(4, n - 10)

NoIndex == -1

RECURSIVE ScanCategory(_, _, _)
\* the first i of the range with parts[i] in CATEGORY_MAP, NoIndex if none
ScanCategory(parts, i, stop) ==
    IF i <= stop THEN NoIndex
    ELSE IF i >= 0 /\ At(parts, i) \in DOMAIN CATEGORY_MAP THEN i
         ELSE ScanCategory(parts, i - 1, stop)

FindCategory(parts) ==
    ScanCategory(parts, ScanStart(Len(parts)), ScanStop(Len(parts)))

\* the literal after its optional sign
Unsigned(t) == IF t # <<>> /\ t[1] \in {"+", "-"} THEN Tail(t) ELSE t

\* int(s) accepts an optional sign followed by decimal digits, single
\* underscores allowed between digits, and raises ValueError otherwise
IsIntLiteral(t) ==
    LET body == Unsigned(t) IN
    /\ body # <<>>
    /\ \A i \in 1..Len(body) : body[i] \in Digits \cup {"_"}
    /\ body[1] # "_" /\ body[Len(body)] # "_"
    /\ \A i \in 1..(Len(body) - 1) : ~(body[i] = "_" /\ body[i + 1] = "_")

IntOf(t) ==
    LET value == DigitsValue(SelectSeq(Unsigned(t), LAMBDA c : c \in Digits))
    IN  IF t[1] = "-" THEN 0 - value ELSE value

\* the ValueError of int() left uncaught
QuantityFailure_Uncaught == RaiseResult("ValueError")

\* `except ValueError: return None`
QuantityFailure == NoneResult

RECURSIVE PackEnd(_, _, _)
\* the loop setting pack_end = i + 1 at every pack-size-like part
PackEnd(middle, i, pack_end) ==
    IF i >= Len(middle) THEN pack_end
    ELSE IF (\E j \in 1..Len(At(middle, i)) : At(middle, i)[j] = "x")
            \/ At(middle, i) \in PACK_UNITS
         THEN PackEnd(middle, i + 1, i + 1)
         ELSE PackEnd(middle, i + 1, pack_end)

\* the length test taking in a word of 8 characters
LooksLikeBrand_UpTo8(t) == t \in KNOWN_BRANDS \/ Len(t) <= 8

\* remaining[0] in KNOWN_BRANDS or len(remaining[0]) < 8
LooksLikeBrand(t) == t \in KNOWN_BRANDS \/ Len(t) < 8

\* <<pack_size, brand, description>> of the middle parts
Segment(middle) ==
    IF middle = <<>> THEN << <<>>, <<>>, <<>> >>
    ELSE LET pack_end  == PackEnd(middle, 0, 0)
             remaining == Slice(middle, pack_end, Len(middle))
         IN  IF remaining = <<>>
             THEN <<Join(Slice(middle, 0, pack_end)), <<>>, <<>> >>
             ELSE IF LooksLikeBrand(remaining[1])
                  THEN <<Join(Slice(middle, 0, pack_end)), remaining[1],
                         Join(Tail(remaining))>>
                  ELSE <<Join(Slice(middle, 0, pack_end)), <<>>, Join(remaining)>>

\* the body of parse_line_item, on parts and on the stripped line
ParseParts(parts, stripped) ==
    IF ~ClassifierAccepts(parts) THEN NoneResult
    ELSE LET prices       == extract_price_fields(parts)
             category_idx == FindCategory(parts)
         IN  IF category_idx = NoIndex THEN NoneResult
             ELSE IF ~(IsIntLiteral(At(parts, 1)) /\ IsIntLiteral(At(parts, 2)))
                  THEN QuantityFailure
                  ELSE LET seg == Segment(Slice(parts, 4, category_idx)) IN
                       [kind             |-> "record",
                        item_code        |-> At(parts, 0),
                        quantity_ordered |-> IntOf(At(parts, 1)),
                        quantity_shipped |-> IntOf(At(parts, 2)),
                        unit             |-> At(parts, 3),
                        pack_size        |-> seg[1],
                        brand            |-> seg[2],
                        description      |-> seg[3],
                        category_code    |-> At(parts, category_idx),
                        category_name    |-> CATEGORY_MAP[At(parts, category_idx)],
                        invoice_value    |-> prices[1],
                        unit_price       |-> prices[2],
                        extended_price   |-> prices[3],
                        raw_line         |-> stripped]

parse_line_item(text) == ParseParts(Split(Strip(text)), Strip(text))

(***************************************************************************)
(* The input lines: a head (item code, two quantities, unit), a middle of  *)
(* free text with a few category codes or an embedded price, and a tail of *)
(* price tokens, optionally followed by one more word.                     *)
(***************************************************************************)
MaxMid == 8        \* most tokens in the middle of a generated line
MaxPrices == 4     \* most price tokens in the tail of a generated line
MaxSeg == 3        \* most tokens between unit and category of a segmenter line

W_123456 == <<"1", "2", "3", "4", "5", "6">>
W_12345 == <<"1", "2", "3", "4", "5">>
W_1234567 == <<"1", "2", "3", "4", "5", "6", "7">>
W_12345a == <<"1", "2", "3", "4", "5", "a">>
W_10 == <<"1", "0">>
W_2 == <<"2">>
W_ten == <<"t", "e", "n">>
W_CS == <<"C", "S">>
W_LB == <<"L", "B">>
W_PR == <<"P", "R">>
W_GR == <<"G", "R">>
W_6x10 == <<"6", "x", "1", "0">>
W_Markon == <<"M", "a", "r", "k", "o", "n">>
W_Fresh == <<"F", "r", "e", "s", "h">>
W_Broccoli == <<"B", "r", "o", "c", "c", "o", "l", "i">>
W_Mixed == <<"M", "i", "x", "e", "d">>
W_T == <<"T">>
W_0_00 == <<"0", ".", "0", "0">>
W_12_50 == <<"1", "2", ".", "5", "0">>
W_125_00 == <<"1", "2", "5", ".", "0", "0">>
W_7_25 == <<"7", ".", "2", "5">>
W_3_10 == <<"3", ".", "1", "0">>
W_12_5 == <<"1", "2", ".", "5">>
W_m5_00 == <<"-", "5", ".", "0", "0">>
W_1_0 == <<"1", "_", "0">>
W_p2 == <<"+", "2">>
W_m2 == <<"-", "2">>
W_1__0 == <<"1", "_", "_", "0">>
W_12U456 == <<"1", "2", "U+0663", "4", "5", "6">>

Heads ==
    { <<W_123456, W_10, W_2, W_CS>>,
      <<W_12345, W_10, W_2, W_CS>>,
      <<W_123456, W_ten, W_2, W_CS>>,
      <<W_123456, W_10, W_12_5, W_CS>> }

\* a run of k filler words
Fill(k) == [i \in 1..k |-> W_Fresh]

\* a category code or an embedded price, or nothing
MidMarks == { <<>>, <<W_PR>>, <<W_GR>>, <<W_7_25>> }

\* filler words with up to two marks placed anywhere among them
Mids ==
    { m \in { Fill(a) \o s1 \o Fill(b) \o s2 \o Fill(c) :
                a \in 0..MaxMid, b \in 0..MaxMid, c \in 0..MaxMid,
                s1 \in MidMarks, s2 \in MidMarks } :
        Len(m) <= MaxMid }

\* the price token that stands j places before the end of a run of prices
TailPrices == <<W_125_00, W_12_50, W_3_10>>
PriceRun(k) == [i \in 1..k |-> TailPrices[((k - i) % 3) + 1]]

Tails ==
    { PriceRun(k) : k \in 0..MaxPrices }
        \cup { PriceRun(k) \o <<W_T>> : k \in 1..MaxPrices }

\* the reference line of the specification, with three and with two prices
RefLine13 ==
    <<W_123456, W_10, W_10, W_CS, W_6x10, W_LB, W_Markon, W_Fresh, W_Broccoli,
      W_PR, W_0_00, W_12_50, W_125_00>>
RefLine12 ==
    <<W_123456, W_10, W_10, W_CS, W_6x10, W_LB, W_Markon, W_Fresh, W_Broccoli,
      W_PR, W_12_50, W_125_00>>

ExtraLines ==
    { Join(SubSeq(RefLine13, 1, k)) : k \in 0..13 }
        \cup { Join(RefLine12),
               <<" ", " ">>,
               <<" ">> \o Join(RefLine13) \o <<" ", "\t">>,
               Join(SubSeq(RefLine13, 1, 9)) \o <<" ", " ">> \o Join(SubSeq(RefLine13, 10, 13)),
               Join(<<W_1234567>> \o Tail(RefLine13)),
               Join(<<W_12345a>> \o Tail(RefLine13)),
               Join(SubSeq(RefLine13, 1, 12) \o <<W_m5_00>>),
               Join(<<W_12U456, W_1_0, W_p2>> \o SubSeq(RefLine13, 4, 13)),
               Join(<<W_123456, W_m2, W_1__0>> \o SubSeq(RefLine13, 4, 13)),
               Join(<<W_123456, W_m2, W_p2>> \o SubSeq(RefLine13, 4, 13)) }

\* the words of pack size, brand and description
SegWords == { W_6x10, W_LB, W_Markon, W_Mixed, W_Fresh, W_Broccoli }

\* lines with every arrangement of up to MaxSeg such words between the unit
\* and the category code
SegLines ==
    { Join(<<W_123456, W_10, W_2, W_CS>> \o m \o <<W_PR, W_0_00, W_12_50, W_125_00>>) :
        m \in UNION { [1..k -> SegWords] : k \in 1..MaxSeg } }

InputLines ==
    { Join(h \o m \o t) : h \in Heads, m \in Mids, t \in Tails }
        \cup ExtraLines \cup SegLines

Pending == [kind |-> "pending"]

\* the variables of the parser calls, before any call
ParserIdle ==
    /\ line = <<>>
    /\ tokens = <<>>
    /\ result = Pending
    /\ priceOut = <<>>

\* an empty catalog, as init_database leaves it
EmptyDatabase ==
    /\ products = <<>>
    /\ invoices = <<>>
    /\ invoice_items = <<>>

UpsertIdle ==
    /\ today = 1
    /\ lastItem = Pending
    /\ nCalls = 0

HistoryIdle ==
    /\ lastInfo = Pending
    /\ nAdds = 0

Workers == {1, 2}

\* fetchone() returning None
NoRow == [id |-> 0]

WorkersIdle ==
    /\ jobs = [w \in Workers |-> <<>>]
    /\ jobIdx = [w \in Workers |-> 1]
    /\ fetched = [w \in Workers |-> NoRow]
    /\ wpc = [w \in Workers |-> "select"]

MetaIdle ==
    /\ firstPage = <<>>
    /\ lineNo = 1
    /\ info = Pending

BatchIdle ==
    /\ docs = <<>>
    /\ docIdx = 1
    /\ current = Pending
    /\ itemIdx = 1
    /\ invoice_id = 0
    /\ product_id = 0
    /\ errors = <<>>
    /\ stored = {}

Init ==
    /\ line \in InputLines
    /\ tokens = <<>>
    /\ result = Pending
    /\ priceOut = <<>>
    /\ pc = "call"
    /\ EmptyDatabase
    /\ UpsertIdle
    /\ BatchIdle
    /\ HistoryIdle
    /\ WorkersIdle
    /\ MetaIdle

\* one call of parse_line_item on the line
ParseLine ==
    /\ pc = "call"
    /\ tokens' = Split(Strip(line))
    /\ result' = ParseParts(tokens', Strip(line))
    /\ pc' = "parsed"
    /\ UNCHANGED <<line, priceOut, dbVars, upsertVars, batchVars, callerVars>>

\* one call of extract_price_fields on the tokens of the line
ExtractPrices ==
    /\ pc = "call"
    /\ tokens' = Split(Strip(line))
    /\ priceOut' = extract_price_fields(tokens')
    /\ pc' = "extracted"
    /\ UNCHANGED <<line, result, dbVars, upsertVars, batchVars, callerVars>>

Next == ParseLine \/ ExtractPrices

Spec == Init /\ [][Next]_vars

(***************************************************************************)
(* Vocabulary of the properties.  These restate the terms of the           *)
(* specification independently of the parser's own loops.                  *)
(***************************************************************************)
NParts == Len(tokens)

\* "the first token is exactly 6 digits" (decimal digits, as \d reads them)
SixDigits(t) == Len(t) = 6 /\ \A i \in 1..6 : t[i] \in Digits

\* "accepted by the Line Classifier"
Accepted == NParts >= 8 /\ SixDigits(tokens[1])

\* the token at 0-based index i is a Category Registry key
KeyAt(i) == At(tokens, i) \in DOMAIN CATEGORY_MAP

\* the category scan window (0-based indices): from 4 tokens before the end
\* back to fewer than 10 tokens before the end, never at or below index 4
Window == { i \in 0..(NParts - 1) : i <= NParts - 4 /\ i > NParts - 10 /\ i > 4 }

\* tokens 1 and 2 are integers
Quantities == IsIntLiteral(At(tokens, 1)) /\ IsIntLiteral(At(tokens, 2))

PriceIdx(parts) == { i \in 1..Len(parts) : IsPriceToken(parts[i]) }

\* the maximal contiguous run of price-shaped tokens that ends at the last
\* price-shaped token of the line (empty when the line has none)
RightmostRun(parts) ==
    LET idx == PriceIdx(parts) IN
    IF idx = {} THEN <<>>
    ELSE LET last  == CHOOSE i \in idx : \A j \in idx : j <= i
             start == CHOOSE j \in 1..last :
                         /\ \A k \in j..last : k \in idx
                         /\ (j = 1 \/ (j - 1) \notin idx)
         IN  SubSeq(parts, start, last)

\* the contiguous run of price-shaped tokens at the very end of the line
TrailingRun(parts) ==
    IF parts = <<>> \/ ~IsPriceToken(parts[Len(parts)]) THEN <<>>
    ELSE RightmostRun(parts)

Values(run) == [i \in 1..Len(run) |-> Float(run[i])]

Text_6x10_LB == <<"6", "x", "1", "0", " ", "L", "B">>
Text_Fresh_Broccoli ==
    <<"F", "r", "e", "s", "h", " ", "B", "r", "o", "c", "c", "o", "l", "i">>

C2_TwoPriceLineYieldsRecord ==
    pc = "parsed" =>
        /\ tokens = RefLine12 =>
              /\ result.kind = "record"
              /\ result.invoice_value = 0
              /\ result.unit_price = 1250
              /\ result.extended_price = 12500
        /\ (/\ Accepted
            /\ Quantities
            /\ KeyAt(NParts - 3)
            /\ IsPriceToken(At(tokens, NParts - 2))
            /\ IsPriceToken(At(tokens, NParts - 1)))
           => /\ result.kind = "record"
              /\ result.invoice_value = 0
              /\ result.unit_price = Float(At(tokens, NParts - 2))
              /\ result.extended_price = Float(At(tokens, NParts - 1))

(***************************************************************************)
(* C3.  A line of n >= MinLen tokens with a 6-digit first token, integer   *)
(* tokens 1 and 2, three price-shaped last tokens and a category code at   *)
(* index n-4 yields a record carrying those tokens; the 13-token reference *)
(* line yields pack size "6x10 LB", brand "Markon", description "Fresh     *)
(* Broccoli", category PR/Produce and prices 0.00, 12.50, 125.00.          *)
(* The claim states it for n >= 8; it holds for n >= 9.                    *)
(***************************************************************************)
WellFormedLine(minLen) ==
    /\ NParts >= minLen
    /\ SixDigits(tokens[1])
    /\ Quantities
    /\ \A j \in 1..3 : IsPriceToken(At(tokens, NParts - j))
    /\ KeyAt(NParts - 4)

CarriesTokens ==
    /\ result.kind = "record"
    /\ result.item_code = At(tokens, 0)
    /\ result.quantity_ordered = IntOf(At(tokens, 1))
    /\ result.quantity_shipped = IntOf(At(tokens, 2))
    /\ result.unit = At(tokens, 3)
    /\ result.category_code = At(tokens, NParts - 4)
    /\ result.category_name = CATEGORY_MAP[At(tokens, NParts - 4)]
    /\ result.invoice_value = Float(At(tokens, NParts - 3))
    /\ result.unit_price = Float(At(tokens, NParts - 2))
    /\ result.extended_price = Float(At(tokens, NParts - 1))

ReferenceRecord ==
    /\ result.kind = "record"
    /\ result.item_code = W_123456
    /\ result.quantity_ordered = 10
    /\ result.quantity_shipped = 10
    /\ result.unit = W_CS
    /\ result.pack_size = Text_6x10_LB
    /\ result.brand = W_Markon
    /\ result.description = Text_Fresh_Broccoli
    /\ result.category_code = W_PR
    /\ result.category_name = "Produce"
    /\ result.invoice_value = 0
    /\ result.unit_price = 1250
    /\ result.extended_price = 12500

\* the claim as stated, for every n >= 8
C3_RecordFromEightTokens ==
    pc = "parsed" =>
        /\ WellFormedLine(8) => CarriesTokens
        /\ tokens = RefLine13 => ReferenceRecord

\* the claim as amended, for every n >= 9
Thm_C3_RecordFromNineTokens ==
    pc = "parsed" =>
        /\ WellFormedLine(9) => CarriesTokens
        /\ tokens = RefLine13 => ReferenceRecord

Wit_C3_ReferenceLine ==
    /\ pc = "parsed"
    /\ tokens = RefLine13
    /\ WellFormedLine(9)
    /\ ReferenceRecord

(***************************************************************************)
(* C4.  parse_line_item never raises, and returns None only for a line the *)
(* classifier rejects or a line with no category code in the scan window.  *)
(* The code also returns None when token 1 or token 2 is not an integer,   *)
(* which the amended statement adds.                                       *)
(***************************************************************************)
C4_NoneOnlyOnRejectOrNoCategory ==
    pc = "parsed" =>
        /\ result.kind # "raise"
        /\ result.kind = "None" <=> ~(Accepted /\ \E i \in Window : KeyAt(i))
        /\ result.kind \in {"None", "record"}

Thm_C4_NoneCases ==
    pc = "parsed" =>
        /\ result.kind # "raise"
        /\ result.kind = "None"
              <=> ~(Accepted /\ (\E i \in Window : KeyAt(i)) /\ Quantities)
        /\ result.kind \in {"None", "record"}

Wit_C4_BadQuantityDropped ==
    /\ pc = "parsed"
    /\ Accepted
    /\ \E i \in Window : KeyAt(i)
    /\ ~Quantities
    /\ result.kind = "None"

(***************************************************************************)
(* C5.  Only a trailing contiguous run of price-shaped tokens counts:      *)
(* extract_price_fields returns what it returns on that run alone, and     *)
(* (0.0, 0.0, 0.0) when the last token is not price-shaped.                *)
(* The code skips non-price tokens at the end of the line, so the run that *)
(* counts is the rightmost contiguous run of price-shaped tokens.          *)
(***************************************************************************)
C5_OnlyTrailingRunCounts ==
    pc = "extracted" =>
        /\ priceOut = extract_price_fields(TrailingRun(tokens))
        /\ (tokens # <<>> /\ ~IsPriceToken(tokens[NParts])) => priceOut = <<0, 0, 0>>

Thm_C5_OnlyRightmostRunCounts ==
    pc = "extracted" =>
        LET run == RightmostRun(tokens) IN
        /\ priceOut = extract_price_fields(run)
        /\ run = <<>> => priceOut = <<0, 0, 0>>

\* a price-shaped token left of the run that counts, and a word right of it
Wit_C5_EmbeddedAndSkipped ==
    /\ pc = "extracted"
    /\ NParts > 0
    /\ ~IsPriceToken(tokens[NParts])
    /\ LET run == RightmostRun(tokens) IN
       /\ Cardinality(PriceIdx(tokens)) > Len(run)
       /\ Len(run) = 2
       /\ priceOut = <<0, Float(run[1]), Float(run[2])>>

(***************************************************************************)
(* C6.  The result policy by the number k of recovered price tokens:       *)
(* k >= 3 gives the three rightmost in order, k = 2 gives (0.0, first,     *)
(* second), k = 1 gives (0.0, v, v), k = 0 gives (0.0, 0.0, 0.0).          *)
(***************************************************************************)
Thm_C6_ResultPolicy ==
    pc = "extracted" =>
        LET v == Values(RightmostRun(tokens))
            k == Len(v)
        IN  /\ k >= 3 => priceOut = <<v[k - 2], v[k - 1], v[k]>>
            /\ k = 2 => priceOut = <<0, v[1], v[2]>>
            /\ k = 1 => priceOut = <<0, v[1], v[1]>>
            /\ k = 0 => priceOut = <<0, 0, 0>>

\* four recovered prices, the leftmost of them left out
Wit_C6_ExtraLeadingPrice ==
    /\ pc = "extracted"
    /\ Len(RightmostRun(tokens)) = 4
    /\ priceOut[1] # Float(RightmostRun(tokens)[1])
    /\ priceOut[1] = Float(RightmostRun(tokens)[2])

(***************************************************************************)
(* C7.  An accepted line with no category code inside the scan window      *)
(* yields None; a returned record carries the category code that stands    *)
(* at the greatest index inside the window.  The window never reaches      *)
(* index 4 or below.                                                       *)
(***************************************************************************)
Thm_C7_CategoryClosestToPrices ==
    (pc = "parsed" /\ Accepted) =>
        /\ (~\E i \in Window : KeyAt(i)) => result.kind = "None"
        /\ result.kind = "record" =>
              \E i \in Window :
                  /\ i > 4
                  /\ KeyAt(i)
                  /\ \A j \in Window : j > i => ~KeyAt(j)
                  /\ result.category_code = At(tokens, i)

\* two different category codes inside the window, the later one returned
Wit_C7_TwoCodesInWindow ==
    /\ pc = "parsed"
    /\ result.kind = "record"
    /\ \E i \in Window : \E j \in Window :
          /\ i < j
          /\ KeyAt(i) /\ KeyAt(j)
          /\ At(tokens, i) # At(tokens, j)
          /\ result.category_code = At(tokens, j)

(***************************************************************************)
(* C8.  Every returned record has a category code of the registry with its *)
(* mapped name, non-negative prices, and unit_price = extended_price when  *)
(* fewer than two price tokens were recovered.                             *)
(***************************************************************************)
Thm_C8_RecordInvariant ==
    (pc = "parsed" /\ result.kind = "record") =>
        /\ result.category_code \in DOMAIN CATEGORY_MAP
        /\ result.category_name = CATEGORY_MAP[result.category_code]
        /\ result.invoice_value >= 0
        /\ result.unit_price >= 0
        /\ result.extended_price >= 0
        /\ Len(RightmostRun(tokens)) < 2 => result.unit_price = result.extended_price

\* a record built from a single recovered price
Wit_C8_SinglePrice ==
    /\ pc = "parsed"
    /\ result.kind = "record"
    /\ Len(RightmostRun(tokens)) = 1
    /\ result.unit_price > 0
    /\ result.unit_price = result.extended_price

(***************************************************************************)
(* C15.  For every returned record the middle tokens (index 4 up to, not   *)
(* including, the category index) are split in order with no token lost or *)
(* duplicated: pack_size is the space-join of the tokens up to and         *)
(* including the last one that contains "x" or is one of EA, LB, OZ, FOZ,  *)
(* CO, CS (empty if there is none); the first token after that is the      *)
(* brand exactly when it is a known brand or shorter than 8 characters;    *)
(* description is the space-join of all the tokens that remain.            *)
(***************************************************************************)
\* the category index of a record: the greatest index of the window that
\* holds a registry key
CatIdx == CHOOSE i \in Window : KeyAt(i) /\ \A j \in Window : j > i => ~KeyAt(j)

\* the middle tokens of a record
Middle == SubSeq(tokens, 5, CatIdx)

IsPackToken(t) ==
    \/ \E j \in 1..Len(t) : t[j] = "x"
    \/ t \in { <<"E", "A">>, <<"L", "B">>, <<"O", "Z">>, <<"F", "O", "Z">>,
                <<"C", "O">>, <<"C", "S">> }

\* how many of the middle tokens the pack size takes
Boundary ==
    LET packs == { i \in 1..Len(Middle) : IsPackToken(Middle[i]) } IN
    IF packs = {} THEN 0 ELSE CHOOSE i \in packs : \A j \in packs : j <= i

AfterBoundary == SubSeq(Middle, Boundary + 1, Len(Middle))

BrandFollows ==
    /\ AfterBoundary # <<>>
    /\ (AfterBoundary[1] \in KNOWN_BRANDS \/ Len(AfterBoundary[1]) < 8)

Thm_C15_SegmenterPartition ==
    (pc = "parsed" /\ result.kind = "record") =>
        /\ result.pack_size = Join(SubSeq(Middle, 1, Boundary))
        /\ result.brand = (IF BrandFollows THEN AfterBoundary[1] ELSE <<>>)
        /\ result.description =
              Join(IF BrandFollows THEN Tail(AfterBoundary) ELSE AfterBoundary)
        /\ Split(result.pack_size)
              \o (IF result.brand = <<>> THEN <<>> ELSE <<result.brand>>)
              \o Split(result.description) = Middle

\* a pack size that takes in a word standing before its last pack token, and
\* a first remaining word of 8 characters, which is no brand
Wit_C15_LongWordAfterPack ==
    /\ pc = "parsed"
    /\ result.kind = "record"
    /\ Boundary = 2
    /\ ~IsPackToken(Middle[1])
    /\ Len(Middle) = 3
    /\ Len(Middle[3]) = 8
    /\ result.brand = <<>>
    /\ result.description = Middle[3]

(***************************************************************************)
(* DatabaseManager: the catalog, invoice-history and invoice-item tables.  *)
(* A table is the sequence of its rows in id order; ids are positions.     *)
(***************************************************************************)
\* json.dumps / json.loads of the price_history column
json_dumps(v) == [json |-> v]
json_loads(text) == text.json

\* the test always appending a price point
PriceChanged_Always(price_history, unit_price) == TRUE

\* not price_history or price_history[-1]['price'] != item_data['unit_price']
PriceChanged(price_history, unit_price) ==
    \/ price_history = <<>>
    \/ price_history[Len(price_history)].price # unit_price

\* SELECT ... WHERE gfs_item_code = ?, fetchone(): the id of the row, 0 if none
ExistingProduct(prods, item_code) ==
    LET found == { i \in 1..Len(prods) : prods[i].gfs_item_code = item_code }
    IN  IF found = {} THEN 0
        ELSE CHOOSE i \in found : \A j \in found : i <= j

\* the row of the INSERT branch
NewProduct(item_data, day) ==
    [gfs_item_code |-> item_data.item_code,
     description   |-> item_data.description,
     brand         |-> item_data.brand,
     pack_size     |-> item_data.pack_size,
     category_code |-> item_data.category_code,
     category_name |-> item_data.category_name,
     unit_price    |-> item_data.unit_price,
     price_history |-> json_dumps(<<[date |-> day, price |-> item_data.unit_price]>>),
     first_seen    |-> day,
     last_seen     |-> day,
     order_count   |-> 1]

\* the row after the UPDATE branch
UpdatedProduct(row, item_data, day) ==
    LET price_history == json_loads(row.price_history)
        appended ==
            IF PriceChanged(price_history, item_data.unit_price)
            THEN Append(price_history, [date |-> day, price |-> item_data.unit_price])
            ELSE price_history
    IN  [row EXCEPT !.unit_price    = item_data.unit_price,
                    !.price_history = json_dumps(appended),
                    !.last_seen     = day,
                    !.order_count   = row.order_count + 1]

\* upsert_product(item_data) on the table prods: the table after the commit
\* and the returned product_id
upsert_product(prods, item_data, day) ==
    LET existing == ExistingProduct(prods, item_data.item_code) IN
    IF existing # 0
    THEN [products   |-> [prods EXCEPT ![existing] = UpdatedProduct(prods[existing], item_data, day)],
          product_id |-> existing]
    ELSE [products   |-> Append(prods, NewProduct(item_data, day)),
          product_id |-> Len(prods) + 1]

\* no value: Python's None, SQL's NULL
NoValue == <<>>

\* whether the insert is ignored: the invoice number is already recorded
\* (a NULL number never conflicts)
InvoiceNumberTaken(invs, number) ==
    /\ number # NoValue
    /\ \E i \in 1..Len(invs) : invs[i].invoice_number = number

\* the row of the INSERT: invoice_info.get(...) of the four keys, a missing
\* key being NoValue
InvoiceRow(invoice_info) ==
    [invoice_number |-> invoice_info.number,
     invoice_date   |-> invoice_info.date,
     location       |-> invoice_info.location,
     total_amount   |-> invoice_info.total]

\* the statement overwriting the recorded invoice on a conflict
add_invoice_Overwrite(invs, invoice_info) ==
    IF InvoiceNumberTaken(invs, invoice_info.number)
    THEN LET i == CHOOSE k \in 1..Len(invs) :
                      invs[k].invoice_number = invoice_info.number
         IN  [invoices |-> [invs EXCEPT ![i] = InvoiceRow(invoice_info)],
              lastrowid |-> i]
    ELSE [invoices |-> Append(invs, InvoiceRow(invoice_info)),
          lastrowid |-> Len(invs) + 1]

\* add_invoice(invoice_info) on the table invs: INSERT OR IGNORE, then
\* cursor.lastrowid, which is 0 on the fresh connection of an ignored insert
add_invoice(invs, invoice_info) ==
    IF InvoiceNumberTaken(invs, invoice_info.number)
    THEN [invoices |-> invs, lastrowid |-> 0]
    ELSE [invoices |-> Append(invs, InvoiceRow(invoice_info)),
          lastrowid |-> Len(invs) + 1]

\* add_invoice_item(invoice_id, product_id, item_data) on the table rows
add_invoice_item(rows, inv_id, prod_id, item_data) ==
    Append(rows, [invoice_id     |-> inv_id,
                  product_id     |-> prod_id,
                  quantity       |-> item_data.quantity_shipped,
                  unit_price     |-> item_data.unit_price,
                  extended_price |-> item_data.extended_price])

(***************************************************************************)
(* Sequential upsert_product calls on one catalog.                         *)
(***************************************************************************)
MaxCalls == 4      \* most upsert_product calls in a run
MaxDay == 2        \* the last day the calendar reaches

W_654321 == <<"6", "5", "4", "3", "2", "1">>

\* the lines the upserted items are parsed from: two prices for one item
\* code, and a second item code
ItemLines ==
    { RefLine13,
      <<W_123456, W_10, W_2, W_CS, W_6x10, W_LB, W_Markon, W_Fresh, W_Broccoli,
        W_PR, W_0_00, W_7_25, W_12_50>>,
      <<W_654321, W_2, W_2, W_CS, W_LB, W_Fresh, W_GR, W_0_00, W_3_10, W_7_25>> }

CatalogItems == { parse_line_item(Join(l)) : l \in ItemLines }

UpsertInit ==
    /\ ParserIdle
    /\ pc = "idle"
    /\ EmptyDatabase
    /\ UpsertIdle
    /\ BatchIdle
    /\ HistoryIdle
    /\ WorkersIdle
    /\ MetaIdle

\* one upsert_product call
UpsertProduct ==
    /\ nCalls < MaxCalls
    /\ \E item_data \in CatalogItems :
          /\ products' = upsert_product(products, item_data, today).products
          /\ lastItem' = item_data
    /\ nCalls' = nCalls + 1
    /\ UNCHANGED <<parserVars, pc, invoices, invoice_items, today, batchVars,
                   callerVars>>

\* midnight passes between two calls
NextDay ==
    /\ today < MaxDay
    /\ today' = today + 1
    /\ UNCHANGED <<parserVars, pc, dbVars, lastItem, nCalls, batchVars, callerVars>>

UpsertNext == UpsertProduct \/ NextDay

UpsertSpec == UpsertInit /\ [][UpsertNext]_vars

\* the rows of the catalog with a given item code
RowsOf(prods, code) == { i \in 1..Len(prods) : prods[i].gfs_item_code = code }

HistoryLen(row) == Len(json_loads(row.price_history))
LastPrice(row) == json_loads(row.price_history)[HistoryLen(row)].price

(***************************************************************************)
(* C9.  Sequential upsert_product calls keep exactly one catalog record    *)
(* per item code.  A call on an item code that already has a record adds   *)
(* no record, raises that record's order_count by exactly 1, and lengthens *)
(* its price_history by one entry when the call's unit_price differs from  *)
(* the last recorded price and by none when it is the same.                *)
(***************************************************************************)
Thm_C9_UpsertIdempotentOnCode ==
    [][ nCalls' = nCalls + 1 =>
          LET code == lastItem'.item_code
              old  == RowsOf(products, code)
              new  == RowsOf(products', code)
          IN  /\ Cardinality(new) = 1
              /\ \A c \in { products'[i].gfs_item_code : i \in 1..Len(products') } :
                    Cardinality(RowsOf(products', c)) = 1
              /\ old # {} =>
                    LET before == products[CHOOSE i \in old : TRUE]
                        after  == products'[CHOOSE i \in new : TRUE]
                    IN  /\ Len(products') = Len(products)
                        /\ new = old
                        /\ after.order_count = before.order_count + 1
                        /\ HistoryLen(after) =
                              HistoryLen(before)
                                + (IF lastItem'.unit_price # LastPrice(before) THEN 1 ELSE 0)
      ]_vars

\* a record upserted with an unchanged price and with a changed price
Wit_C9_RepeatedAndChangedPrice ==
    /\ nCalls >= 3
    /\ \E i \in 1..Len(products) :
          /\ products[i].order_count = 3
          /\ HistoryLen(products[i]) = 2
          /\ lastItem.item_code = products[i].gfs_item_code
          /\ lastItem.unit_price = LastPrice(products[i])

(***************************************************************************)
(* Two workers calling upsert_product on one catalog, with no coordination *)
(* between them.  Every call opens its own connection (get_connection).    *)
(* The SELECT runs outside any transaction; the UPDATE or INSERT opens one *)
(* and conn.commit() ends it.  So each of the two statements is atomic,    *)
(* and the other worker may run between them.                              *)
(***************************************************************************)
MaxJobs == 2       \* most upsert_product calls of one worker

JobLists == UNION { [1..n -> CatalogItems] : n \in 0..MaxJobs }

\* cursor.fetchone() of SELECT id, price_history, order_count ... WHERE
\* gfs_item_code = ?
SelectExisting(prods, item_code) ==
    LET id == ExistingProduct(prods, item_code) IN
    IF id = 0 THEN NoRow
    ELSE [id            |-> id,
          price_history |-> prods[id].price_history,
          order_count   |-> prods[id].order_count]

\* the statement after the SELECT, computed from the fetched row: UPDATE ...
\* WHERE id = ? if there was one, INSERT otherwise
WriteProduct(prods, row, item_data, day) ==
    IF row.id # 0
    THEN LET price_history == json_loads(row.price_history)
             appended ==
                 IF PriceChanged(price_history, item_data.unit_price)
                 THEN Append(price_history,
                             [date |-> day, price |-> item_data.unit_price])
                 ELSE price_history
         IN  [prods EXCEPT ![row.id] =
                 [@ EXCEPT !.unit_price    = item_data.unit_price,
                           !.price_history = json_dumps(appended),
                           !.last_seen     = day,
                           !.order_count   = row.order_count + 1]]
    ELSE Append(prods, NewProduct(item_data, day))

WorkersInit ==
    /\ ParserIdle
    /\ pc = "workers"
    /\ EmptyDatabase
    /\ UpsertIdle
    /\ BatchIdle
    /\ HistoryIdle
    /\ jobs \in [Workers -> JobLists]
    /\ jobIdx = [w \in Workers |-> 1]
    /\ fetched = [w \in Workers |-> NoRow]
    /\ wpc = [w \in Workers |-> "select"]
    /\ MetaIdle

\* worker w enters upsert_product for its next item and runs the SELECT
SelectRow(w) ==
    /\ wpc[w] = "select"
    /\ jobIdx[w] <= Len(jobs[w])
    /\ fetched' = [fetched EXCEPT ![w] =
                      SelectExisting(products, jobs[w][jobIdx[w]].item_code)]
    /\ wpc' = [wpc EXCEPT ![w] = "write"]
    /\ UNCHANGED <<parserVars, pc, dbVars, upsertVars, batchVars, historyVars, metaVars,
                   jobs, jobIdx>>

\* worker w runs the UPDATE or INSERT, commits and returns
WriteRow(w) ==
    /\ wpc[w] = "write"
    /\ products' = WriteProduct(products, fetched[w], jobs[w][jobIdx[w]], today)
    /\ fetched' = [fetched EXCEPT ![w] = NoRow]
    /\ jobIdx' = [jobIdx EXCEPT ![w] = @ + 1]
    /\ wpc' = [wpc EXCEPT ![w] = "select"]
    /\ UNCHANGED <<parserVars, pc, invoices, invoice_items, upsertVars, batchVars,
                   historyVars, metaVars, jobs>>

WorkersNext == \E w \in Workers : SelectRow(w) \/ WriteRow(w)

WorkersSpec == WorkersInit /\ [][WorkersNext]_vars

RECURSIVE UpsertAll(_, _)
\* the catalog after upsert_product was called on the items one after another
UpsertAll(prods, items) ==
    IF items = <<>> THEN prods
    ELSE UpsertAll(upsert_product(prods, items[1], 1).products, Tail(items))

RECURSIVE Merges(_, _)
\* the orders in which the calls of two workers can follow one another
Merges(a, b) ==
    IF a = <<>> THEN {b}
    ELSE IF b = <<>> THEN {a}
    ELSE { <<a[1]>> \o m : m \in Merges(Tail(a), b) }
            \cup { <<b[1]>> \o m : m \in Merges(a, Tail(b)) }

AllDone == \A w \in Workers : jobIdx[w] > Len(jobs[w])

\* the upsert_product calls the workers make for an item code
CallsFor(code) ==
    { c \in Workers \X (1..MaxJobs + 1) :
        c[2] <= Len(jobs[c[1]]) /\ jobs[c[1]][c[2]].item_code = code }

(***************************************************************************)
(* C13.  For any interleaving of the upsert_product steps (the SELECT,     *)
(* then the UPDATE or INSERT) of two workers on the same catalog, the      *)
(* final catalog is the one some sequential order of the calls produces:   *)
(* one record per item code, order_count the number of upsert calls for    *)
(* the code, no price-history entry lost.                                  *)
(***************************************************************************)
C13_InterleavingsAreSerializable ==
    AllDone =>
        /\ products \in { UpsertAll(<<>>, m) : m \in Merges(jobs[1], jobs[2]) }
        /\ \A code \in { products[i].gfs_item_code : i \in 1..Len(products) } :
              /\ Cardinality(RowsOf(products, code)) = 1
              /\ \A i \in RowsOf(products, code) :
                    products[i].order_count = Cardinality(CallsFor(code))

(***************************************************************************)
(* Sequential add_invoice calls on one invoice history.                    *)
(*                                                                         *)
(* An invoice_info carries a number (digits as text), a date <<year,       *)
(* month, day>>, a location (text) and a total (decimal text), each of     *)
(* them NoValue where the key is missing.                                  *)
(***************************************************************************)
MaxAdds == 3       \* most add_invoice calls in a run

W_1001 == <<"1", "0", "0", "1">>
W_1002 == <<"1", "0", "0", "2">>

W_LINCOLN == <<"L", "I", "N", "C", "O", "L", "N">>
W_ELEMENTARY == <<"E", "L", "E", "M", "E", "N", "T", "A", "R", "Y">>

InfoChoices ==
    [number   : {W_1001, W_1002, NoValue},
     date     : {<<2025, 1, 15>>, <<2025, 2, 1>>},
     location : {NoValue, Join(<<W_LINCOLN, W_ELEMENTARY>>)},
     total    : {NoValue, W_125_00}]

HistoryInit ==
    /\ ParserIdle
    /\ pc = "idle"
    /\ EmptyDatabase
    /\ UpsertIdle
    /\ BatchIdle
    /\ HistoryIdle
    /\ WorkersIdle
    /\ MetaIdle

\* one add_invoice call
AddInvoiceCall ==
    /\ nAdds < MaxAdds
    /\ \E invoice_info \in InfoChoices :
          LET r == add_invoice(invoices, invoice_info) IN
          /\ invoices' = r.invoices
          /\ invoice_id' = r.lastrowid
          /\ lastInfo' = invoice_info
    /\ nAdds' = nAdds + 1
    /\ UNCHANGED <<parserVars, pc, products, invoice_items, upsertVars, docs, docIdx,
                   current, itemIdx, product_id, errors, stored, workerVars,
                   metaVars>>

HistoryNext == AddInvoiceCall

HistorySpec == HistoryInit /\ [][HistoryNext]_vars

\* the records of the history that carry a given invoice number
RecordsOf(invs, number) == { i \in 1..Len(invs) : invs[i].invoice_number = number }

(***************************************************************************)
(* C12.  add_invoice is a no-op when its invoice number is already         *)
(* recorded: after any sequence of calls the history holds at most one     *)
(* record per invoice number, a call with a recorded number leaves the     *)
(* history as it was, and no call changes the date, location or total of   *)
(* a record that exists.                                                   *)
(***************************************************************************)
Thm_C12_AddInvoiceNoOpOnDuplicate ==
    [][ nAdds' = nAdds + 1 =>
          LET number == lastInfo'.number IN
          /\ \A i \in 1..Len(invoices') :
                invoices'[i].invoice_number # NoValue =>
                    RecordsOf(invoices', invoices'[i].invoice_number) = {i}
          /\ (number # NoValue /\ RecordsOf(invoices, number) # {}) =>
                invoices' = invoices
          /\ Len(invoices') >= Len(invoices)
          /\ \A i \in 1..Len(invoices) : invoices'[i] = invoices[i]
      ]_vars

\* a number recorded once, then given again with another date, location and
\* total: one record, carrying what the first call gave
Wit_C12_RepeatedNumberIgnored ==
    /\ nAdds = 2
    /\ Len(invoices) = 1
    /\ invoice_id = 0
    /\ lastInfo.number = invoices[1].invoice_number
    /\ lastInfo.date # invoices[1].invoice_date
    /\ lastInfo.location # invoices[1].location
    /\ lastInfo.total # invoices[1].total_amount

(***************************************************************************)
(* parse_invoice: the metadata of the first page.                          *)
(*                                                                         *)
(* The invoice_info dict is a record of its four keys, NoValue standing    *)
(* for a key that is missing; parse_invoice never sets 'total'.            *)
(***************************************************************************)
MaxGap == 5        \* most filler lines between a Ship-To line and what follows

W_Invoice == <<"I", "n", "v", "o", "i", "c", "e">>
W_Date == <<"D", "a", "t", "e">>
W_Ship == <<"S", "h", "i", "p">>
W_To == <<"T", "o", ":">>
W_01_15_2025 == <<"0", "1", "/", "1", "5", "/", "2", "0", "2", "5">>
W_02_30_2025 == <<"0", "2", "/", "3", "0", "/", "2", "0", "2", "5">>
W_KIDS == <<"K", "I", "D", "S">>
W_CENTER == <<"C", "E", "N", "T", "E", "R">>
W_SCHOOL == <<"S", "C", "H", "O", "O", "L">>

T_Invoice == W_Invoice
T_InvoiceDate == Join(<<W_Invoice, W_Date>>)
T_ShipTo == Join(<<W_Ship, W_To>>)

\* [A-Z]
Upper ==
    { "A", "B", "C", "D", "E", "F", "G", "H", "I", "J", "K", "L", "M", "N",
      "O", "P", "Q", "R", "S", "T", "U", "V", "W", "X", "Y", "Z" }

\* SCHOOL|ELEMENTARY|CENTER, in the order the alternation tries them
SUFFIXES == <<W_SCHOOL, W_ELEMENTARY, W_CENTER>>

\* the text t stands in s at index k (1-based)
StartsAt(s, k, t) ==
    /\ k + Len(t) - 1 <= Len(s)
    /\ SubSeq(s, k, k + Len(t) - 1) = t

\* `t in s`
Contains(s, t) == \E k \in 1..(Len(s) - Len(t) + 1) : StartsAt(s, k, t)

RECURSIVE RunEnd(_, _, _)
\* the index after the longest run of characters of cs that starts at k
RunEnd(s, k, cs) ==
    IF k <= Len(s) /\ s[k] \in cs THEN RunEnd(s, k + 1, cs) ELSE k

\* the least element of a non-empty set of integers
Least(S) == CHOOSE k \in S : \A j \in S : k <= j

\* the index of the first character after marker and the whitespace \s+
\* that follows it, for marker standing at k; 0 if there is no whitespace
AfterMarker(s, k, marker) ==
    LET w == k + Len(marker)
        d == RunEnd(s, w, Whitespace)
    IN  IF StartsAt(s, k, marker) /\ d > w THEN d ELSE 0

\* re.search(r'Invoice\s+(\d+)', line): group(1), NoValue if no match
InvoiceNumberMatch(s) ==
    LET hits == { k \in 1..Len(s) :
                    LET d == AfterMarker(s, k, T_Invoice) IN
                    d # 0 /\ RunEnd(s, d, Digits) > d }
    IN  IF hits = {} THEN NoValue
        ELSE LET d == AfterMarker(s, Least(hits), T_Invoice) IN
             SubSeq(s, d, RunEnd(s, d, Digits) - 1)

\* \d{2}/\d{2}/\d{4} at index d
DateShapeAt(s, d) ==
    /\ d + 9 <= Len(s)
    /\ \A i \in 0..9 : IF i \in {2, 5} THEN s[d + i] = "/" ELSE s[d + i] \in Digits

\* re.search(r'Invoice Date\s+(\d{2}/\d{2}/\d{4})', line): group(1), NoValue
\* if no match
InvoiceDateMatch(s) ==
    LET hits == { k \in 1..Len(s) :
                    LET d == AfterMarker(s, k, T_InvoiceDate) IN
                    d # 0 /\ DateShapeAt(s, d) }
    IN  IF hits = {} THEN NoValue
        ELSE LET d == AfterMarker(s, Least(hits), T_InvoiceDate) IN
             SubSeq(s, d, d + 9)

DaysIn(month, year) ==
    IF month = 2
    THEN IF year % 4 = 0 /\ (year % 100 # 0 \/ year % 400 = 0) THEN 29 ELSE 28
    ELSE IF month \in {4, 6, 9, 11} THEN 30 ELSE 31

\* datetime.strptime(text, '%m/%d/%Y').date() of a date-shaped text: the date
\* <<year, month, day>>, or ValueError when there is no such day
StrpDate(text) ==
    LET month == DigitsValue(SubSeq(text, 1, 2))
        day   == DigitsValue(SubSeq(text, 4, 5))
        year  == DigitsValue(SubSeq(text, 7, 10))
    IN  IF month \in 1..12 /\ year >= 1 /\ day >= 1 /\ day <= DaysIn(month, year)
        THEN [kind |-> "ok", date |-> <<year, month, day>>]
        ELSE RaiseResult("ValueError")

\* the index of the last character of the match of
\* [A-Z][A-Z\s]+(?:SCHOOL|ELEMENTARY|CENTER) that starts at k, 0 if none:
\* the greedy [A-Z\s]+ gives back characters until a suffix follows it
LocationEnd(s, k) ==
    IF k > Len(s) \/ s[k] \notin Upper THEN 0
    ELSE LET stop == RunEnd(s, k + 1, Upper \cup Whitespace)
             ends == { e \in (k + 1)..(stop - 1) :
                         \E i \in 1..Len(SUFFIXES) : StartsAt(s, e + 1, SUFFIXES[i]) }
         IN  IF ends = {} THEN 0
             ELSE LET e == CHOOSE x \in ends : \A y \in ends : y <= x
                      i == Least({ j \in 1..Len(SUFFIXES) :
                                      StartsAt(s, e + 1, SUFFIXES[j]) })
                  IN  e + Len(SUFFIXES[i])

\* re.search(r'([A-Z][A-Z\s]+(?:SCHOOL|ELEMENTARY|CENTER))', line):
\* group(1).strip(), NoValue if no match
LocationMatch(s) ==
    LET hits == { k \in 1..Len(s) : LocationEnd(s, k) # 0 } IN
    IF hits = {} THEN NoValue
    ELSE Strip(SubSeq(s, Least(hits), LocationEnd(s, Least(hits))))

\* lines.index(line), 0-based: the first line equal to the given one
IndexOf(lines, ln) == Least({ i \in 1..Len(lines) : lines[i] = ln }) - 1

\* range(idx, min(idx+5, len(lines))), 0-based
LookAhead(idx, n) == idx..(Min(idx + 5, n) - 1)

EmptyInfo ==
    [kind |-> "ok", number |-> NoValue, date |-> NoValue, location |-> NoValue,
     total |-> NoValue]

\* the `if 'Invoice' in line and not invoice_info.get('number')` block
WithNumber(inf, ln) ==
    IF Contains(ln, T_Invoice) /\ inf.number = NoValue
       /\ InvoiceNumberMatch(ln) # NoValue
    THEN [inf EXCEPT !.number = InvoiceNumberMatch(ln)]
    ELSE inf

\* the `if 'Invoice Date' in line` block
WithDate(inf, ln) ==
    IF Contains(ln, T_InvoiceDate) /\ InvoiceDateMatch(ln) # NoValue
    THEN LET d == StrpDate(InvoiceDateMatch(ln)) IN
         IF d.kind = "raise" THEN d ELSE [inf EXCEPT !.date = d.date]
    ELSE inf

\* the `if 'Ship To:' in line` block
WithLocation(inf, lines, ln) ==
    IF inf.kind = "raise" \/ ~Contains(ln, T_ShipTo) THEN inf
    ELSE LET hits == { j \in LookAhead(IndexOf(lines, ln), Len(lines)) :
                          LocationMatch(At(lines, j)) # NoValue }
         IN  IF hits = {} THEN inf
             ELSE [inf EXCEPT !.location = LocationMatch(At(lines, Least(hits)))]

\* one turn of `for line in lines:` on the first page, for the line at i
\* (1-based): invoice_info after it, or the exception it raises
ScanMetadataLine(inf, lines, i) ==
    WithLocation(WithDate(WithNumber(inf, lines[i]), lines[i]), lines, lines[i])

RECURSIVE ScanMetadata(_, _, _)
\* the whole loop, from line i on
ScanMetadata(inf, lines, i) ==
    IF i > Len(lines) \/ inf.kind = "raise" THEN inf
    ELSE ScanMetadata(ScanMetadataLine(inf, lines, i), lines, i + 1)

\* invoice_info of a document whose first page has the given lines
ExtractMetadata(lines) == ScanMetadata(EmptyInfo, lines, 1)

(***************************************************************************)
(* The first pages: invoice-number and date lines, a Ship-To line, filler  *)
(* lines, a line with a location, and what may follow it.                  *)
(***************************************************************************)
L_Invoice1001 == Join(<<W_Invoice, W_1001>>)
L_Invoice1002 == Join(<<W_Invoice, W_1002>>)
L_Date == Join(<<W_Invoice, W_Date, W_01_15_2025>>)
L_BadDate == Join(<<W_Invoice, W_Date, W_02_30_2025>>)
L_ShipTo == Join(<<W_Ship, W_To>>)
L_ShipToLincoln == Join(<<W_Ship, W_To, W_LINCOLN, W_ELEMENTARY>>)
L_Lincoln == Join(<<W_LINCOLN, W_ELEMENTARY, W_SCHOOL>>)
L_Center == Join(<<W_10, W_KIDS, W_CENTER, W_2>>)
L_Filler == Join(<<W_Fresh, W_Broccoli>>)

PageHeads ==
    { <<>>, <<L_Invoice1001>>, <<L_Date>>, <<L_Invoice1001, L_Date>>,
      <<L_Invoice1002, L_Invoice1001>>, <<L_Invoice1001, L_BadDate>> }

Anchors == { <<>>, <<L_ShipTo>>, <<L_ShipToLincoln>> }

Locations == { <<>>, <<L_Lincoln>>, <<L_Center>> }

PageTails ==
    { <<>>, <<L_Center>>, <<L_ShipTo, L_Lincoln>>, <<L_Filler, L_ShipTo, L_Center>> }

FirstPages ==
    { h \o a \o [i \in 1..g |-> L_Filler] \o l \o t :
        h \in PageHeads, a \in Anchors, g \in 0..MaxGap, l \in Locations,
        t \in PageTails }

MetaInit ==
    /\ ParserIdle
    /\ pc = "scan"
    /\ EmptyDatabase
    /\ UpsertIdle
    /\ BatchIdle
    /\ HistoryIdle
    /\ WorkersIdle
    /\ firstPage \in FirstPages
    /\ lineNo = 1
    /\ info = EmptyInfo

\* one turn of the loop over the lines of the first page
ScanLine ==
    /\ pc = "scan"
    /\ lineNo <= Len(firstPage)
    /\ info' = ScanMetadataLine(info, firstPage, lineNo)
    /\ lineNo' = lineNo + 1
    /\ pc' = IF info'.kind = "raise" THEN "raised" ELSE "scan"
    /\ UNCHANGED <<parserVars, dbVars, upsertVars, batchVars, historyVars, workerVars,
                   firstPage>>

\* the lines of the first page are exhausted
EndOfPage ==
    /\ pc = "scan"
    /\ lineNo > Len(firstPage)
    /\ pc' = "scanned"
    /\ UNCHANGED <<parserVars, dbVars, upsertVars, batchVars, callerVars>>

MetaNext == ScanLine \/ EndOfPage

MetaSpec == MetaInit /\ [][MetaNext]_vars

\* the lines that contain "Ship To:" (1-based)
AnchorLines(lines) == { i \in 1..Len(lines) : Contains(lines[i], T_ShipTo) }

\* of the up-to-5 lines after line a, those matching the location pattern
MatchesAfter(lines, a) ==
    { j \in (a + 1)..Min(a + 5, Len(lines)) : LocationMatch(lines[j]) # NoValue }

RECURSIVE ClaimedLocation(_, _, _)
\* the location as stated: each Ship-To line, in order, sets it to the match
\* of the first matching line among the up-to-5 lines after it
ClaimedLocation(lines, a, loc) ==
    IF a > Len(lines) THEN loc
    ELSE IF a \in AnchorLines(lines) /\ MatchesAfter(lines, a) # {}
         THEN ClaimedLocation(lines, a + 1,
                              LocationMatch(lines[Least(MatchesAfter(lines, a))]))
         ELSE ClaimedLocation(lines, a + 1, loc)

\* the page without its Ship-To lines
WithoutAnchors(lines) == SelectSeq(lines, LAMBDA ln : ~Contains(ln, T_ShipTo))

(***************************************************************************)
(* C14.  On the first page a line containing "Ship To:" triggers a         *)
(* look-ahead over the next up-to-5 lines after it; location becomes the   *)
(* match of the first of those lines that matches the institutional-suffix *)
(* pattern, and stays unset if none of them matches.  Number and date are  *)
(* the same with and without the Ship-To lines.                            *)
(* The code looks at the Ship-To line itself and the 4 lines after it.     *)
(***************************************************************************)
C14_ShipToLooksAtNextFiveLines ==
    pc = "scanned" =>
        /\ info.location = ClaimedLocation(firstPage, 1, NoValue)
        /\ info.number = ExtractMetadata(WithoutAnchors(firstPage)).number
        /\ info.date = ExtractMetadata(WithoutAnchors(firstPage)).date

(***************************************************************************)
(* batch_process_invoices.                                                 *)
(*                                                                         *)
(* An invoice file is given by what reading it yields: whether pdfplumber  *)
(* can read it, and the text lines of its one page.  Faults of the         *)
(* database (sqlite3 errors) are part of the input: add_invoice_fault for  *)
(* the add_invoice call of the file, and faults[i] for the i-th parsed     *)
(* item ("upsert": upsert_product raises; "add_item": add_invoice_item     *)
(* raises).  Opening the database in DatabaseManager(db_path) and the       *)
(* summary query get_products_by_category may each raise or not.           *)
(***************************************************************************)
MaxDocs == 3       \* most invoice files in a batch

LineA == Join(RefLine13)
LineA2 ==
    Join(<<W_123456, W_10, W_2, W_CS, W_6x10, W_LB, W_Markon, W_Fresh, W_Broccoli,
           W_PR, W_0_00, W_7_25, W_12_50>>)
LineB ==
    Join(<<W_654321, W_2, W_2, W_CS, W_LB, W_Fresh, W_GR, W_0_00, W_3_10, W_7_25>>)
LineHeader == Join(<<W_Fresh, W_Broccoli, W_T>>)

DocChoices ==
    { [readable |-> TRUE, add_invoice_fault |-> FALSE,
       lines |-> <<L_Invoice1001, L_Date, LineHeader, LineA, LineB>>,
       faults |-> <<"none", "none">>],
      [readable |-> TRUE, add_invoice_fault |-> FALSE,
       lines |-> <<L_Invoice1002, LineA2>>, faults |-> <<"none">>],
      [readable |-> FALSE, add_invoice_fault |-> FALSE,
       lines |-> <<L_Invoice1002, LineA, LineB>>, faults |-> <<"none", "none">>],
      [readable |-> TRUE, add_invoice_fault |-> FALSE,
       lines |-> <<L_Invoice1001, L_ShipTo, L_Lincoln, LineA, LineB, LineA2>>,
       faults |-> <<"upsert", "add_item", "none">>],
      [readable |-> TRUE, add_invoice_fault |-> TRUE,
       lines |-> <<L_Invoice1002, LineB>>, faults |-> <<"none">>],
      [readable |-> TRUE, add_invoice_fault |-> FALSE,
       lines |-> <<LineHeader>>, faults |-> <<>>] }

Batches == UNION { [1..n -> DocChoices] : n \in 0..MaxDocs }

RECURSIVE ParseLines(_)
\* the loop appending every non-None parse_line_item(line) to items
ParseLines(lines) ==
    IF lines = <<>> THEN <<>>
    ELSE LET item == parse_line_item(lines[1]) IN
         IF item.kind = "record" THEN <<item>> \o ParseLines(Tail(lines))
         ELSE ParseLines(Tail(lines))

\* parse_invoice(pdf_path): raises on an unreadable file and on an invoice
\* date that strptime refuses, else the metadata and the items of the lines
parse_invoice(doc) ==
    IF ~doc.readable THEN RaiseResult("Exception")
    ELSE LET invoice_info == ExtractMetadata(doc.lines) IN
         IF invoice_info.kind = "raise" THEN invoice_info
         ELSE [kind         |-> "ok",
               invoice_info |-> invoice_info,
               items        |-> ParseLines(doc.lines)]

FileError(d) == [where |-> "file", document |-> d, item |-> 0]
ItemError(d, i) == [where |-> "item", document |-> d, item |-> i]

\* an exception of the file's processing that ends the whole loop
AfterFileError_Abort(d) == [docIdx |-> Len(docs) + 1, pc |-> "parse"]

\* the outer `except Exception: ... continue`: on to the next file
AfterFileError(d) == [docIdx |-> d + 1, pc |-> "parse"]

BatchInit ==
    /\ ParserIdle
    /\ pc = "open"
    /\ EmptyDatabase
    /\ UpsertIdle
    /\ docs \in Batches
    /\ docIdx = 1
    /\ current = Pending
    /\ itemIdx = 1
    /\ invoice_id = 0
    /\ product_id = 0
    /\ errors = <<>>
    /\ stored = {}
    /\ HistoryIdle
    /\ WorkersIdle
    /\ MetaIdle

\* db = DatabaseManager(db_path), before the loop and outside every try: an
\* exception of sqlite3.connect or of the schema script leaves the function
OpenCatalog ==
    /\ pc = "open"
    /\ \E fault \in BOOLEAN : pc' = IF fault THEN "raised" ELSE "parse"
    /\ UNCHANGED <<parserVars, dbVars, upsertVars, batchVars, callerVars>>

\* result = parse_invoice(str(pdf_path)), inside the outer try
ParseInvoice ==
    /\ pc = "parse"
    /\ docIdx <= Len(docs)
    /\ LET r == parse_invoice(docs[docIdx]) IN
       IF r.kind = "raise"
       THEN /\ errors' = Append(errors, FileError(docIdx))
            /\ docIdx' = AfterFileError(docIdx).docIdx
            /\ pc' = AfterFileError(docIdx).pc
            /\ UNCHANGED current
       ELSE /\ current' = r
            /\ pc' = "add_invoice"
            /\ UNCHANGED <<errors, docIdx>>
    /\ UNCHANGED <<parserVars, dbVars, upsertVars, callerVars, docs, itemIdx,
                   invoice_id, product_id, stored>>

\* invoice_id = db.add_invoice(result['invoice_info']), inside the outer try
AddInvoice ==
    /\ pc = "add_invoice"
    /\ IF docs[docIdx].add_invoice_fault
       THEN /\ errors' = Append(errors, FileError(docIdx))
            /\ docIdx' = AfterFileError(docIdx).docIdx
            /\ pc' = AfterFileError(docIdx).pc
            /\ UNCHANGED <<invoices, invoice_id, itemIdx>>
       ELSE LET r == add_invoice(invoices, current.invoice_info) IN
            /\ invoices' = r.invoices
            /\ invoice_id' = r.lastrowid
            /\ itemIdx' = 1
            /\ pc' = "item"
            /\ UNCHANGED <<errors, docIdx>>
    /\ UNCHANGED <<parserVars, products, invoice_items, upsertVars, callerVars, docs,
                   current, product_id, stored>>

\* product_id = db.upsert_product(item), inside the inner try
UpsertItem ==
    /\ pc = "item"
    /\ itemIdx <= Len(current.items)
    /\ IF docs[docIdx].faults[itemIdx] = "upsert"
       THEN /\ errors' = Append(errors, ItemError(docIdx, itemIdx))
            /\ itemIdx' = itemIdx + 1
            /\ UNCHANGED <<products, product_id, pc>>
       ELSE LET r == upsert_product(products, current.items[itemIdx], today) IN
            /\ products' = r.products
            /\ product_id' = r.product_id
            /\ pc' = "add_item"
            /\ UNCHANGED <<errors, itemIdx>>
    /\ UNCHANGED <<parserVars, invoices, invoice_items, upsertVars, callerVars, docs,
                   docIdx, current, invoice_id, stored>>

\* db.add_invoice_item(invoice_id, product_id, item), inside the inner try
AddInvoiceItem ==
    /\ pc = "add_item"
    /\ IF docs[docIdx].faults[itemIdx] = "add_item"
       THEN /\ errors' = Append(errors, ItemError(docIdx, itemIdx))
            /\ UNCHANGED <<invoice_items, stored>>
       ELSE /\ invoice_items' =
                  add_invoice_item(invoice_items, invoice_id, product_id,
                                   current.items[itemIdx])
            /\ stored' = stored \cup {<<docIdx, itemIdx>>}
            /\ UNCHANGED errors
    /\ itemIdx' = itemIdx + 1
    /\ pc' = "item"
    /\ UNCHANGED <<parserVars, products, invoices, upsertVars, callerVars, docs,
                   docIdx, current, invoice_id, product_id>>

\* the items of the file are exhausted: the next file
EndOfItems ==
    /\ pc = "item"
    /\ itemIdx > Len(current.items)
    /\ docIdx' = docIdx + 1
    /\ pc' = "parse"
    /\ UNCHANGED <<parserVars, dbVars, upsertVars, callerVars, docs, current, itemIdx,
                   invoice_id, product_id, errors, stored>>

\* the files are exhausted: "Processing complete!"
EndOfFiles ==
    /\ pc = "parse"
    /\ docIdx > Len(docs)
    /\ pc' = "complete"
    /\ UNCHANGED <<parserVars, dbVars, upsertVars, batchVars, callerVars>>

\* stats = db.get_products_by_category() and the summary printed from it,
\* after the loop and outside every try
Summary ==
    /\ pc = "complete"
    /\ \E fault \in BOOLEAN : pc' = IF fault THEN "raised" ELSE "returned"
    /\ UNCHANGED <<parserVars, dbVars, upsertVars, batchVars, callerVars>>

BatchNext ==
    \/ OpenCatalog
    \/ ParseInvoice
    \/ AddInvoice
    \/ UpsertItem
    \/ AddInvoiceItem
    \/ EndOfItems
    \/ EndOfFiles
    \/ Summary

BatchSpec == BatchInit /\ [][BatchNext]_vars

(***************************************************************************)
(* The batch as a function of its files, for files that can all be read:   *)
(* what the three tables hold after the files were processed in order.     *)
(***************************************************************************)
RECURSIVE StoreItems(_, _, _, _, _)
StoreItems(db, items, faults, inv_id, i) ==
    IF i > Len(items) THEN db
    ELSE IF faults[i] = "upsert" THEN StoreItems(db, items, faults, inv_id, i + 1)
    ELSE LET u == upsert_product(db.products, items[i], 1) IN
         IF faults[i] = "add_item"
         THEN StoreItems([db EXCEPT !.products = u.products], items, faults, inv_id, i + 1)
         ELSE StoreItems([db EXCEPT !.products = u.products,
                                    !.invoice_items =
                                        add_invoice_item(db.invoice_items, inv_id,
                                                         u.product_id, items[i])],
                         items, faults, inv_id, i + 1)

StoreDocument(db, doc) ==
    IF doc.add_invoice_fault THEN db
    ELSE LET a == add_invoice(db.invoices, ExtractMetadata(doc.lines)) IN
         StoreItems([db EXCEPT !.invoices = a.invoices], ParseLines(doc.lines),
                    doc.faults, a.lastrowid, 1)

RECURSIVE StoreAll(_, _)
StoreAll(db, batch) ==
    IF batch = <<>> THEN db
    ELSE StoreAll(StoreDocument(db, batch[1]), Tail(batch))

EmptyDb == [products |-> <<>>, invoices |-> <<>>, invoice_items |-> <<>>]

\* the batch without the files whose parsing raises
Readable(batch) == SelectSeq(batch, LAMBDA d : d.readable)

NumItems(doc) == Len(ParseLines(doc.lines))

(***************************************************************************)
(* C10.  When the parsing of file K raises, every other file of the batch  *)
(* is parsed and stored exactly as in the batch without K, nothing is      *)
(* stored for K and exactly one failure is recorded for K.  An exception   *)
(* while storing one item skips that item only: the other items of the     *)
(* file are still stored.                                                  *)
(***************************************************************************)
Thm_C10_BatchIsolation ==
    pc = "complete" =>
        /\ [products |-> products, invoices |-> invoices,
            invoice_items |-> invoice_items] = StoreAll(EmptyDb, Readable(docs))
        /\ \A k \in 1..Len(docs) :
              ~docs[k].readable =>
                  /\ Cardinality({ e \in 1..Len(errors) : errors[e].document = k }) = 1
                  /\ \A p \in stored : p[1] # k
        /\ \A k \in 1..Len(docs) :
              (docs[k].readable /\ ~docs[k].add_invoice_fault) =>
                  \A i \in 1..NumItems(docs[k]) :
                      /\ <<k, i>> \in stored <=> docs[k].faults[i] = "none"
                      /\ docs[k].faults[i] # "none" =>
                            Cardinality({ e \in 1..Len(errors) :
                                            errors[e] = ItemError(k, i) }) = 1

\* an unreadable file between two stored files, and a file with a failed item
\* followed by a stored one
Wit_C10_FailureBetweenStoredFiles ==
    /\ pc = "complete"
    /\ Len(docs) = 3
    /\ ~docs[2].readable
    /\ \E i \in 1..NumItems(docs[1]) : <<1, i>> \in stored
    /\ \E i \in 1..NumItems(docs[3]) : \E j \in 1..NumItems(docs[3]) :
          /\ i < j
          /\ docs[3].faults[i] # "none"
          /\ <<3, j>> \in stored

(***************************************************************************)
(* C11.  batch_process_invoices always runs to completion and produces its *)
(* report: no exception of the document parser or of a database call       *)
(* (add_invoice, upsert_product, add_invoice_item, the construction of the *)
(* DatabaseManager, the final summary query) leaves the function.          *)
(* The construction and the summary query stand outside every try, so an   *)
(* exception of either one leaves the function.                            *)
(***************************************************************************)
C11_NoExceptionEscapes == pc # "raised"

(***************************************************************************)
(* C16.  Every invoice item that batch_process_invoices stores references, *)
(* through its invoice_id, the invoice-history record that carries the     *)
(* invoice number of the file the item came from, and through its          *)
(* product_id the catalog record with the item's item code; also for a     *)
(* file whose invoice number was already recorded.                         *)
(* For such a file add_invoice returns the lastrowid of an ignored insert, *)
(* which is no record's id.                                                *)
(***************************************************************************)
C16_ItemsReferenceTheirInvoice ==
    [][ Len(invoice_items') = Len(invoice_items) + 1 =>
          LET row  == invoice_items'[Len(invoice_items')]
              item == current.items[itemIdx]
          IN  /\ row.invoice_id \in 1..Len(invoices)
              /\ invoices[row.invoice_id].invoice_number = current.invoice_info.number
              /\ row.product_id \in 1..Len(products)
              /\ products[row.product_id].gfs_item_code = item.item_code
      ]_vars

====
